---- MODULE Spec2Model ----
(***************************************************************************)
(* Model of the orders_project batch pipeline.                             *)
(*                                                                         *)
(*   jobs/build_samples.py            the sampling and profiling job       *)
(*   src/ingestao/download_public_data.py   the acquisition script         *)
(*                                                                         *)
(* The job is a sequential program; every Spark call it makes is one step  *)
(* of the model (two for the overwrite, which first removes the            *)
(* destination and then commits the new files).  DataFrames are lazy:      *)
(* every action (write, count, agg) evaluates sample + limit again.        *)
(***************************************************************************)
EXTENDS Naturals, Integers, Sequences, FiniteSets, TLC

\* ------------------------------------------------------------------ bounds
\* Longest raw table of the model.
MaxRows == 2
\* The row ceiling of df.limit(100_000), scaled to the model's tables.
RowCap == 1
\* Largest response body, in chunks, of the acquisition script.
MaxChunks == 2

\* --------------------------------------------------------------- constants
\* seed = 42
Seed == 42
\* quick_profile(df, name, max_cols=10)
max_cols == 10

\* The same datasets taken in sorted order, as sorted(samples.items()) would.
NamesSorted == <<"ab_test", "consumer", "order", "restaurant">>
\* paths / samples: the dict order is the processing order.
Names == <<"order", "consumer", "restaurant", "ab_test">>
Datasets == {Names[k] : k \in 1..Len(Names)}

\* local[*]: one partition slot per core of the machine running the job.
CoreCounts == {1, 2}

NULL == "null"
Values == {NULL, "a", "b"}
AllRows == {<<>>} \cup {<<v>> : v \in Values}

Min(a, b) == IF a <= b THEN a ELSE b

RECURSIVE SeqsUpTo(_, _)
SeqsUpTo(S, n) ==
    IF n = 0 THEN {<<>>}
    ELSE LET prev == SeqsUpTo(S, n - 1)
         IN  prev \cup {Append(s, x) : s \in {q \in prev : Len(q) = n - 1}, x \in S}

\* A raw file as the reader presents it: a header and rows, or no file.
MissingFile == [present |-> FALSE, cols |-> <<>>, rows |-> <<>>]
\* A file without any structure (0 bytes, or JSON without records): the
\* inferred schema is empty.
NoStructure == [present |-> TRUE, cols |-> <<>>, rows |-> <<>>]
OneColTables ==
    {[present |-> TRUE, cols |-> <<"c1">>, rows |-> r] :
        r \in SeqsUpTo({<<v>> : v \in Values}, MaxRows)}
DefaultTable == [present |-> TRUE, cols |-> <<"c1">>, rows |-> << <<"a">> >>]
RawContents == OneColTables \cup {NoStructure, MissingFile}

EmptyBag == [r \in AllRows |-> 0]
Absent == [exists |-> FALSE, cols |-> <<>>, bag |-> EmptyBag]
NoProfile == [hdr |-> FALSE, n |-> 0, lines |-> <<>>, complete |-> FALSE]

VARIABLES
    raw,        \* data/raw/<dataset>: content of each raw file
    rng,        \* the engine's generator: (seed of a partition, position) -> keep
    cores,      \* default parallelism of the current session
    pc,         \* position of main()
    i,          \* index in Names of the dataset at hand
    c,          \* quick_profile: index of the column at hand
    fs,         \* data/processed/samples/<name>: the persisted artifacts
    old,        \* content of the destination when the current overwrite began
    gravado,    \* datasets whose success line was printed in this run
    prof,       \* what quick_profile printed in this run, per dataset
    log,        \* stages performed in this run, in order
    err,        \* why the run ended abnormally
    seen,       \* included-row sets observed at evaluations of each sample
    prev_done,  \* the previous invocation ran to completion
    files,      \* acquisition: FILES, in iteration order
    status,     \* acquisition: HTTP status the server answers per resource
    body,       \* acquisition: chunks of each response body
    apc,        \* acquisition: position of main() / download_file()
    ai,         \* acquisition: index in files
    disk,       \* acquisition: data/raw/<fname>, chunks on disk (-1: no file)
    saved       \* acquisition: resources whose "salvo" line was printed

jobvars == <<raw, rng, cores, pc, i, c, fs, old, gravado, prof, log, err,
             seen, prev_done>>
acqvars == <<files, status, body, apc, ai, disk, saved>>
vars == <<raw, rng, cores, pc, i, c, fs, old, gravado, prof, log, err,
          seen, prev_done, files, status, body, apc, ai, disk, saved>>

\* ------------------------------------------------------------ the engine
\* File splits: the scan cuts a file into contiguous splits of
\* ceil(size / default parallelism); n rows, k cores.
SplitSize(n, k) == (n + k - 1) \div k
PartOf(j, n, k) == (j - 1) \div SplitSize(n, k)
PosOf(j, n, k) == ((j - 1) % SplitSize(n, k)) + 1

\* Draws the engine can make on tables of the model.
RngDomain ==
    {<<Seed + PartOf(j, n, k), PosOf(j, n, k)>> :
        j \in 1..MaxRows, n \in 1..MaxRows, k \in CoreCounts}

\* The p-th draw of the generator seeded s falls below frac (0.01).
Draw(s, p) == rng[<<s, p>>]

\* df.sample(False, frac, seed) on a scan of k splits: partition q draws with
\* a generator seeded seed + q, one draw per row, in file order.  The result
\* is the set of included rows (indices into the raw table).
sample(t, k) ==
    {j \in 1..Len(t.rows) : Draw(Seed + PartOf(j, Len(t.rows), k),
                                 PosOf(j, Len(t.rows), k))}

\* df.limit(100_000): any RowCap rows of its input, or all of them when there
\* are fewer.  Which rows is up to the engine, at every evaluation.
\* (LimitNone: the sample left uncapped.)
LimitNone(S) == {S}
limit(S) == {T \in SUBSET S : Cardinality(T) = Min(RowCap, Cardinality(S))}

\* The rows an action sees when it evaluates the capped sample of table t.
Evaluations(t) == limit(sample(t, cores))

\* Rows T of table t as a bag of row values.
BagOf(t, T) == [r \in AllRows |-> Cardinality({j \in T : t.rows[j] = r})]

RECURSIVE BagSum(_, _)
BagSum(b, R) ==
    IF R = {} THEN 0
    ELSE LET r == CHOOSE x \in R : TRUE IN b[r] + BagSum(b, R \ {r})
BagSize(b) == BagSum(b, AllRows)

\* ------------------------------------------------------------ quick_profile
\* cols = df.columns[:max_cols]
ProfiledCols(cols) == SubSeq(cols, 1, Min(max_cols, Len(cols)))

\* F.count(F.col(c)) and F.countDistinct(F.col(c)) over rows T of table t.
NonNull(t, T, k) == Cardinality({j \in T : t.rows[j][k] # NULL})
Distinct(t, T, k) == Cardinality({t.rows[j][k] : j \in T} \ {NULL})

\* nulls = n - non_null  (NullsSwapped: the operands exchanged.)
NullsSwapped(n, non_null) == non_null - n
Nulls(n, non_null) == n - non_null

\* The same aggregates over a persisted artifact.
BagNonNull(b, k) == BagSum(b, {r \in AllRows : Len(r) >= k /\ r[k] # NULL})
BagDistinct(b, k) ==
    Cardinality({r[k] : r \in {x \in AllRows : Len(x) >= k /\ b[x] > 0}} \ {NULL})

\* --------------------------------------------------------------- main()
Cur == Names[i]
Emit(stage) == Append(log, <<stage, Cur>>)

\* The job is invoked, for the first time or again after a run that completed.
\* SparkSession.builder ... master("local[*]") ... getOrCreate()
StartRun ==
    /\ UNCHANGED acqvars
    /\ pc \in {"idle", "done"}
    /\ \E k \in CoreCounts : cores' = k
    /\ prev_done' = (pc = "done")
    /\ pc' = "read"
    /\ i' = 1
    /\ c' = 1
    /\ gravado' = {}
    /\ prof' = [d \in Datasets |-> NoProfile]
    /\ log' = <<>>
    /\ err' = "none"
    /\ old' = Absent
    /\ UNCHANGED <<raw, rng, fs, seen>>

\* spark.read...json(path) / csv.csv(path): the path is resolved (and the
\* schema inferred) when the reader is called; a missing path raises.
ReadOk ==
    /\ UNCHANGED acqvars
    /\ pc = "read"
    /\ raw[Cur].present
    /\ log' = Emit("ingest")
    /\ IF i < Len(Names) THEN i' = i + 1 /\ pc' = pc
                         ELSE i' = 1 /\ pc' = "sample"
    /\ UNCHANGED <<raw, rng, cores, c, fs, old, gravado, prof, err, seen,
                   prev_done>>

ReadFails ==
    /\ UNCHANGED acqvars
    /\ pc = "read"
    /\ ~raw[Cur].present
    /\ pc' = "failed"
    /\ err' = "SourceUnavailable"
    /\ UNCHANGED <<raw, rng, cores, i, c, fs, old, gravado, prof, log,
                   seen, prev_done>>

\* samples = {...: df.sample(False, frac, seed), ...}: lazy, nothing runs.
DeclareSample ==
    /\ UNCHANGED acqvars
    /\ pc = "sample"
    /\ log' = Emit("sample")
    /\ IF i < Len(Names) THEN i' = i + 1 /\ pc' = pc
                         ELSE i' = 1 /\ pc' = "limit"
    /\ UNCHANGED <<raw, rng, cores, c, fs, old, gravado, prof, err, seen,
                   prev_done>>

\* df = df.limit(100_000): lazy as well.
DeclareLimit ==
    /\ UNCHANGED acqvars
    /\ pc = "limit"
    /\ log' = Emit("cap")
    /\ pc' = "write"
    /\ UNCHANGED <<raw, rng, cores, i, c, fs, old, gravado, prof, err,
                   seen, prev_done>>

\* df.write.mode("overwrite").parquet(path), first half: a DataFrame without
\* columns is refused before anything is touched; otherwise overwrite mode
\* removes what the destination holds before the job that writes runs.
\* (WriteRefusedNoRows: a writer that refuses any DataFrame without rows.)
WriteRefusedNoRows ==
    /\ UNCHANGED acqvars
    /\ pc = "write"
    /\ raw[Cur].rows = <<>>
    /\ pc' = "failed"
    /\ err' = "EmptySchema"
    /\ UNCHANGED <<raw, rng, cores, i, c, fs, old, gravado, prof, log,
                   seen, prev_done>>

WriteRefused ==
    /\ UNCHANGED acqvars
    /\ pc = "write"
    /\ raw[Cur].cols = <<>>
    /\ pc' = "failed"
    /\ err' = "EmptySchema"
    /\ UNCHANGED <<raw, rng, cores, i, c, fs, old, gravado, prof, log,
                   seen, prev_done>>

WriteDelete ==
    /\ UNCHANGED acqvars
    /\ pc = "write"
    /\ raw[Cur].cols # <<>>
    /\ old' = fs[Cur]
    /\ fs' = [fs EXCEPT ![Cur] = Absent]
    /\ pc' = "writing"
    /\ UNCHANGED <<raw, rng, cores, i, c, gravado, prof, log, err, seen,
                   prev_done>>

\* second half: the plan is evaluated and the files are committed.
WriteCommit ==
    /\ UNCHANGED acqvars
    /\ pc = "writing"
    /\ \E T \in Evaluations(raw[Cur]) :
          fs' = [fs EXCEPT ![Cur] = [exists |-> TRUE, cols |-> raw[Cur].cols,
                                     bag |-> BagOf(raw[Cur], T)]]
    /\ seen' = [seen EXCEPT ![Cur] = @ \cup {sample(raw[Cur], cores)}]
    /\ log' = Emit("write")
    /\ pc' = "print"
    /\ UNCHANGED <<raw, rng, cores, i, c, old, gravado, prof, err,
                   prev_done>>

\* the write raises (destination not writable, disk full) or the process is
\* interrupted while the job that writes runs: nothing is rolled back.
WriteAbort ==
    /\ UNCHANGED acqvars
    /\ pc = "writing"
    /\ \E kind \in {"WriteFailure", "Interrupt"} : err' = kind
    /\ pc' = "failed"
    /\ UNCHANGED <<raw, rng, cores, i, c, fs, old, gravado, prof, log,
                   seen, prev_done>>

\* print(f"... gravado {out_base}/{name} (parquet)")
PrintWritten ==
    /\ UNCHANGED acqvars
    /\ pc = "print"
    /\ gravado' = gravado \cup {Cur}
    /\ pc' = "count"
    /\ UNCHANGED <<raw, rng, cores, i, c, fs, old, prof, log, err, seen,
                   prev_done>>

\* quick_profile: n = df.count(); print header; cols = df.columns[:max_cols]
ProfileCount ==
    /\ UNCHANGED acqvars
    /\ pc = "count"
    /\ \E T \in Evaluations(raw[Cur]) :
          prof' = [prof EXCEPT ![Cur] =
                      [hdr |-> TRUE, n |-> Cardinality(T), lines |-> <<>>,
                       complete |-> FALSE]]
    /\ seen' = [seen EXCEPT ![Cur] = @ \cup {sample(raw[Cur], cores)}]
    /\ log' = Emit("profile")
    /\ c' = 1
    /\ pc' = "col"
    /\ UNCHANGED <<raw, rng, cores, i, fs, old, gravado, err, prev_done>>

\* quick_profile: one pass of the loop over cols.
ProfileColumn ==
    /\ UNCHANGED acqvars
    /\ pc = "col"
    /\ c <= Len(ProfiledCols(raw[Cur].cols))
    /\ \E T \in Evaluations(raw[Cur]) :
          LET non_null == NonNull(raw[Cur], T, c)
              distinct == Distinct(raw[Cur], T, c)
              line == [col |-> ProfiledCols(raw[Cur].cols)[c],
                       non_null |-> non_null,
                       nulls |-> Nulls(prof[Cur].n, non_null),
                       distinct |-> distinct]
          IN  prof' = [prof EXCEPT ![Cur].lines = Append(@, line)]
    /\ seen' = [seen EXCEPT ![Cur] = @ \cup {sample(raw[Cur], cores)}]
    /\ c' = c + 1
    /\ UNCHANGED <<raw, rng, cores, pc, i, fs, old, gravado, log, err,
                   prev_done>>

\* quick_profile returns; the for loop of main() takes the next sample.
NextDataset ==
    /\ UNCHANGED acqvars
    /\ pc = "col"
    /\ c > Len(ProfiledCols(raw[Cur].cols))
    /\ prof' = [prof EXCEPT ![Cur].complete = TRUE]
    /\ IF i < Len(Names) THEN i' = i + 1 /\ pc' = "limit"
                         ELSE i' = i /\ pc' = "stop"
    /\ UNCHANGED <<raw, rng, cores, c, fs, old, gravado, log, err, seen,
                   prev_done>>

\* spark.stop()
Stop ==
    /\ UNCHANGED acqvars
    /\ pc = "stop"
    /\ pc' = "done"
    /\ UNCHANGED <<raw, rng, cores, i, c, fs, old, gravado, prof, log,
                   err, seen, prev_done>>

\* ------------------------------------------- download_public_data.py
\* FILES: the entries of the dict (any of them may be commented out).
Resources == {"order.json.gz", "consumer.csv.gz", "restaurant.csv.gz"}

NoRepeat(q) == \A a, b \in 1..Len(q) : a # b => q[a] # q[b]
FileLists == {q \in SeqsUpTo(Resources, Cardinality(Resources)) :
                 Len(q) >= 1 /\ NoRepeat(q)}

ACur == files[ai]

\* print(f"Baixando {fname}..."); download_file: mkdir, requests.get(stream)
AcqGet ==
    /\ UNCHANGED jobvars
    /\ apc = "next"
    /\ apc' = "check"
    /\ UNCHANGED <<files, status, body, ai, disk, saved>>

\* r.raise_for_status(): HTTPError on 4xx and 5xx; nothing catches it.
AcqRaise ==
    /\ UNCHANGED jobvars
    /\ apc = "check"
    /\ status[ACur] >= 400
    /\ apc' = "failed"
    /\ UNCHANGED <<files, status, body, ai, disk, saved>>

\* open(dest, "wb"): the file is created, or truncated.
AcqOpen ==
    /\ UNCHANGED jobvars
    /\ apc = "check"
    /\ status[ACur] < 400
    /\ disk' = [disk EXCEPT ![ACur] = 0]
    /\ apc' = "chunks"
    /\ UNCHANGED <<files, status, body, ai, saved>>

\* for chunk in r.iter_content(...): f.write(chunk)
AcqChunk ==
    /\ UNCHANGED jobvars
    /\ apc = "chunks"
    /\ disk[ACur] < body[ACur]
    /\ disk' = [disk EXCEPT ![ACur] = @ + 1]
    /\ UNCHANGED <<files, status, body, apc, ai, saved>>

\* the with blocks close; print(f"... Arquivo salvo em: {target}"); next entry
AcqSaved ==
    /\ UNCHANGED jobvars
    /\ apc = "chunks"
    /\ disk[ACur] = body[ACur]
    /\ saved' = saved \cup {ACur}
    /\ IF ai < Len(files) THEN ai' = ai + 1 /\ apc' = "next"
                          ELSE ai' = ai /\ apc' = "done"
    /\ UNCHANGED <<files, status, body, disk>>

\* ------------------------------------------------------- specifications
\* The raw area when the job is first invoked: one dataset holds any content
\* of the model (a table, a file without structure, no file), at most one
\* other file is missing, the others hold a one-row table.  The generator is
\* any fixed function of (seed, position).
JobInit ==
    /\ \E f \in Datasets, t \in RawContents, m \in SUBSET Datasets :
          /\ Cardinality(m) <= 1
          /\ f \notin m
          /\ raw = [d \in Datasets |->
                       IF d = f THEN t
                       ELSE IF d \in m THEN MissingFile ELSE DefaultTable]
    /\ rng \in [RngDomain -> BOOLEAN]
    /\ cores = 1
    /\ pc = "idle"
    /\ i = 1
    /\ c = 1
    /\ fs = [d \in Datasets |-> Absent]
    /\ old = Absent
    /\ gravado = {}
    /\ prof = [d \in Datasets |-> NoProfile]
    /\ log = <<>>
    /\ err = "none"
    /\ seen = [d \in Datasets |-> {}]
    /\ prev_done = FALSE

JobOff ==
    /\ raw = [d \in Datasets |-> MissingFile]
    /\ rng = [x \in RngDomain |-> FALSE]
    /\ cores = 1
    /\ pc = "off"
    /\ i = 1
    /\ c = 1
    /\ fs = [d \in Datasets |-> Absent]
    /\ old = Absent
    /\ gravado = {}
    /\ prof = [d \in Datasets |-> NoProfile]
    /\ log = <<>>
    /\ err = "none"
    /\ seen = [d \in Datasets |-> {}]
    /\ prev_done = FALSE

AcqInit ==
    /\ files \in FileLists
    /\ status \in [Resources -> {200, 404}]
    /\ body \in [Resources -> 0..MaxChunks]
    /\ \A r \in Resources :
          (\A k \in 1..Len(files) : files[k] # r) => status[r] = 200 /\ body[r] = 0
    /\ apc = "next"
    /\ ai = 1
    /\ disk = [r \in Resources |-> -1]
    /\ saved = {}

AcqOff ==
    /\ files = <<>>
    /\ status = [r \in Resources |-> 200]
    /\ body = [r \in Resources |-> 0]
    /\ apc = "off"
    /\ ai = 1
    /\ disk = [r \in Resources |-> -1]
    /\ saved = {}

Next ==
    \/ StartRun
    \/ ReadOk
    \/ ReadFails
    \/ DeclareSample
    \/ DeclareLimit
    \/ WriteRefused
    \/ WriteDelete
    \/ WriteCommit
    \/ WriteAbort
    \/ PrintWritten
    \/ ProfileCount
    \/ ProfileColumn
    \/ NextDataset
    \/ Stop

NextAcq ==
    \/ AcqGet
    \/ AcqRaise
    \/ AcqOpen
    \/ AcqChunk
    \/ AcqSaved

Init == JobInit /\ AcqOff
Spec == Init /\ [][Next]_vars

InitAcq == JobOff /\ AcqInit
SpecAcq == InitAcq /\ [][NextAcq]_vars

\* ---------------------------------------------------------------- claims
IsPrefix(a, b) == Len(a) <= Len(b) /\ a = SubSeq(b, 1, Len(a))
DeclaredOrder == <<"order", "consumer", "restaurant", "ab_test">>
Stages(st, len) ==
    [k \in 1..len |-> <<st[((k - 1) % Len(st)) + 1],
                        DeclaredOrder[((k - 1) \div Len(st)) + 1]>>]
PerDataset(st) == Stages(st, Len(st) * Len(DeclaredOrder))

\* The profile quick_profile would print for a persisted artifact.
ProfileMatches(p, a) ==
    /\ p.n = BagSize(a.bag)
    /\ Len(p.lines) = Len(ProfiledCols(a.cols))
    /\ \A k \in 1..Len(p.lines) :
          /\ p.lines[k].nulls = BagSize(a.bag) - BagNonNull(a.bag, k)
          /\ p.lines[k].distinct = BagDistinct(a.bag, k)

\* C1: every artifact under data/processed/samples holds at most RowCap rows
\* (the cap of limit) and at most as many rows as its raw table.
C1_CapInvariant ==
    \A d \in Datasets :
        fs[d].exists =>
            /\ BagSize(fs[d].bag) <= RowCap
            /\ BagSize(fs[d].bag) <= Len(raw[d].rows)

\* C1 witness: a raw table longer than the cap whose realized sample exceeds
\* the cap has been written in this run, with exactly RowCap rows.
C1_Witness ==
    \E d \in Datasets :
        /\ d \in gravado
        /\ Len(raw[d].rows) > RowCap
        /\ Cardinality(sample(raw[d], cores)) > RowCap
        /\ BagSize(fs[d].bag) = RowCap

\* C2: once a dataset's profile is complete, the printed row count and the
\* printed null and distinct counts are those of the artifact written for
\* that dataset in the same run.
C2_ProfileDescribesArtifact ==
    \A d \in Datasets : prof[d].complete => ProfileMatches(prof[d], fs[d])

\* C3: all evaluations of a dataset's sampling step, within a run and across
\* runs, include the same set of rows.
C3_SampleDeterministic ==
    \A d \in Datasets : Cardinality(seen[d]) <= 1

\* C4: when the run ends because a raw file is missing, every dataset whose
\* raw file is readable (and has columns) has been written and profiled.
C4_MissingFileIsolated ==
    (pc = "failed" /\ err = "SourceUnavailable") =>
        \A d \in Datasets :
            (raw[d].present /\ raw[d].cols # <<>>) =>
                d \in gravado /\ prof[d].complete

\* C5: while a destination is being overwritten, and after a write failure
\* or an interrupt, it holds the complete previous artifact (the new one is
\* not committed yet); and a success line is printed only for a dataset
\* whose write completed.
C5_WriteAtomic ==
    /\ (pc = "writing" \/ (pc = "failed" /\ err \in {"WriteFailure", "Interrupt"}))
          => fs[Cur] = old
    /\ \A d \in gravado : fs[d].exists

\* C6: in a run that follows a completed run over the same raw files, the
\* artifact just written has the row multiset the previous run left at that
\* path.  (Stated for datasets whose sample was the same at every
\* evaluation so far.)
C6_RerunSameArtifact ==
    (prev_done /\ pc \in {"print", "count", "col"} /\ Cardinality(seen[Cur]) <= 1)
        => fs[Cur].bag = old.bag

\* C7: for every printed column line, null_count + non_null_count equals
\* the row count of the header line.
C7_NullCountConsistency ==
    \A d \in Datasets :
        \A k \in 1..Len(prof[d].lines) :
            prof[d].lines[k].nulls + prof[d].lines[k].non_null = prof[d].n

\* C7 witness: a column line with nulls has been printed.
C7_Witness ==
    \E d \in Datasets :
        \E k \in 1..Len(prof[d].lines) :
            prof[d].lines[k].nulls > 0 /\ prof[d].n > 0

\* What C8 promises for dataset d.
EmptyHandled(d) ==
    /\ ~(pc = "failed" /\ Cur = d /\ err \notin {"WriteFailure", "Interrupt"})
    /\ d \in gravado => (fs[d].exists /\ BagSize(fs[d].bag) = 0)
    /\ prof[d].hdr => prof[d].n = 0
    /\ \A k \in 1..Len(prof[d].lines) :
          prof[d].lines[k].nulls = 0 /\ prof[d].lines[k].distinct = 0
    /\ prof[d].complete => Len(prof[d].lines) = Len(ProfiledCols(raw[d].cols))

\* C8 (as claimed): a raw table with 0 rows never fails its dataset; the
\* artifact written has zero rows and the profile reports row_count = 0 and
\* nulls = 0, distinct = 0 for every profiled column.
C8_EmptyInput ==
    \A d \in Datasets :
        (raw[d].present /\ raw[d].rows = <<>>) => EmptyHandled(d)

\* C8 (amended): the same, for a raw table with 0 rows and at least one
\* column.
C8_EmptyInputWithColumns ==
    \A d \in Datasets :
        (raw[d].present /\ raw[d].rows = <<>> /\ raw[d].cols # <<>>)
            => EmptyHandled(d)

\* C8 witness: a header-only table has been written and fully profiled.
C8_Witness ==
    \E d \in Datasets :
        /\ raw[d].present /\ raw[d].rows = <<>> /\ raw[d].cols # <<>>
        /\ d \in gravado /\ fs[d].exists
        /\ prof[d].complete /\ Len(prof[d].lines) > 0

C10_StagesPerDataset ==
    IsPrefix(log, PerDataset(<<"ingest", "sample", "cap", "write", "profile">>))

\* C10 (amended): a run ingests the four datasets in the declared order,
\* then declares their four samples in that order, and then performs cap,
\* write, profile of order, then of consumer, of restaurant, of ab_test.
C10_StagesAsCoded ==
    IsPrefix(log, PerDataset(<<"ingest">>) \o PerDataset(<<"sample">>)
                  \o PerDataset(<<"cap", "write", "profile">>))

\* C10 witness: a run has completed, with all its stages.
C10_Witness ==
    /\ pc = "done"
    /\ Len(log) = Len(PerDataset(<<"ingest", "sample", "cap", "write", "profile">>))

====
